---- MODULE Spec2Model ----
(***************************************************************************)
(* Model of backend/server.py: the server query path of the CS widget      *)
(* generator.  query_cs_server (cache lookup, A2S info query, A2S player   *)
(* query, cache store) runs in worker threads started by the two HTTP      *)
(* handlers that use it, /api/query-server and /api/widget/{id}/status;    *)
(* /api/save-config creates the widget documents the status handler reads, *)
(* DELETE /api/widget/{id} removes them.                                   *)
(*                                                                         *)
(* Time is counted in whole seconds (time.time()).  The a2s library is not *)
(* part of the repository: a round trip is modelled by its possible        *)
(* outcomes (a response, socket.timeout, ConnectionRefusedError, any other *)
(* exception), the response's content being an input.                      *)
(***************************************************************************)
EXTENDS Integers, Sequences, FiniteSets, TLC

VARIABLES
    now,          \* time.time(), in seconds
    query_cache,  \* the module-level dict query_cache: key -> <<data, timestamp>>
    db,           \* db.widget_configs: widget_id -> document
    uuids,        \* how many values uuid.uuid4() has returned; it never repeats one
    call          \* the in-flight HTTP requests, one record per request slot

vars == <<now, query_cache, db, uuids, call>>

----------------------------------------------------------------------------
\* Bounds of the model

MaxCacheTicks == 3
MaxEndpointTicks == 2
MaxTimeHttp == 1
MaxTimeQuery == 3
MaxWidgets == 1
MaxAccess == 2
MaxPlayers == 2

\* two request slots: two requests are in flight at a time, and a slot that has
\* answered takes the next request
Calls == {1, 2}

----------------------------------------------------------------------------
\* Program constants

CACHE_DURATION == 10
MinPort == 1
MaxPort == 65535
RequestDefaultTimeout == 3
QueryDefaultTimeout == 3

----------------------------------------------------------------------------
\* Optional[T]: None is the empty tuple, a value x is <<x>>

None == <<>>

Some(x) == <<x>>

Val(o) == o[1]

----------------------------------------------------------------------------
\* Inputs

Ips == {"203.0.113.5"}

Ports == {0, 27015, 65536}

\* the values of the request's timeout field after parsing: null, or a float
Timeouts == {None, Some(0), Some(RequestDefaultTimeout)}

\* what a2s.info can return (SourceInfo / GoldSrcInfo objects)
Infos ==
    { [server_name |-> "Test Server", map_name |-> "de_dust2", player_count |-> 10,
       max_players |-> 32, game |-> "Counter-Strike", server_type |-> "d",
       platform |-> "l", password_protected |-> FALSE, vac_enabled |-> TRUE],
      [server_name |-> "Test Server", map_name |-> "de_inferno", player_count |-> 2,
       max_players |-> 32, game |-> "Counter-Strike", server_type |-> "d",
       platform |-> "l", password_protected |-> TRUE, vac_enabled |-> FALSE] }

\* what a2s.players can return: Player objects; duration is in milliseconds here
PlayerObjects ==
    { [name |-> "", score |-> 0, duration |-> 0],
      [name |-> "alice", score |-> 3, duration |-> 61234],
      [name |-> "bob", score |-> 7, duration |-> 5006] }

SeqsUpTo(S, n) == UNION { [1..k -> S] : k \in 0..n }

PlayerResponses == SeqsUpTo(PlayerObjects, MaxPlayers)

\* exceptions other than socket.timeout and ConnectionRefusedError, by str(e)
OtherExceptions == {"Invalid response type"}

\* the enabled_fields mappings a client saves
FieldMaps ==
    { [hostname |-> TRUE, map |-> TRUE, ping |-> FALSE, player_list |-> TRUE],
      [hostname |-> TRUE, player_list |-> FALSE, uptime |-> TRUE] }

\* one mapping with every case of the status filter: fields shown, a field
\* hidden, a field the result does not have, and result fields left unmentioned
StatusFieldMaps ==
    { [hostname |-> TRUE, map |-> TRUE, ping |-> FALSE, player_list |-> TRUE,
       uptime |-> TRUE] }

----------------------------------------------------------------------------
\* ServerQueryRequest.validate_port

validate_port(v) == MinPort <= v /\ v <= MaxPort

\* get_cache_key: f"{ip}:{port}".  The port is printed as a decimal integer,
\* which holds no colon, so the text splits back into the pair at its last
\* colon: the key determines (ip, port), and is modelled as the pair.
get_cache_key(ip, port) == <<ip, port>>

\* CacheFresh with the age taken in milliseconds
CacheFreshMillis(t, timestamp) == (t - timestamp) * 1000 < CACHE_DURATION

\* CacheFresh with <= for <
CacheFreshInclusive(t, timestamp) == t - timestamp <= CACHE_DURATION

\* CacheFresh without the test of the entry's age
CacheAlwaysFresh(t, timestamp) == TRUE

\* time.time() - timestamp < CACHE_DURATION
CacheFresh(t, timestamp) == t - timestamp < CACHE_DURATION

\* set_cached_query as query_cache.setdefault(key, ...): the first store wins
set_cached_query_setdefault(cache, ip, port, data, t) ==
    LET key == get_cache_key(ip, port)
    IN  [k \in DOMAIN cache \cup {key} |-> IF k \in DOMAIN cache THEN cache[k] ELSE <<data, t>>]

\* set_cached_query: query_cache[key] = (data, time.time())
set_cached_query(cache, ip, port, data, t) ==
    LET key == get_cache_key(ip, port)
    IN  [k \in DOMAIN cache \cup {key} |-> IF k = key THEN <<data, t>> ELSE cache[k]]

\* round(p.duration, 2) on a duration given in milliseconds (no input is a tie)
Round2(ms) == ((ms + 5) \div 10) * 10

\* {"name": p.name, "score": p.score, "duration": round(p.duration, 2)}
PlayerEntry(p) == [name |-> p.name, score |-> p.score, duration |-> Round2(p.duration)]

\* PlayerList without the "if p.name" of the comprehension
PlayerListUnfiltered(players) == [i \in 1..Len(players) |-> PlayerEntry(players[i])]

\* the list comprehension [... for p in players if p.name]
RECURSIVE PlayerList(_)
PlayerList(players) ==
    IF players = <<>> THEN <<>>
    ELSE IF Head(players).name # ""
         THEN <<PlayerEntry(Head(players))>> \o PlayerList(Tail(players))
         ELSE PlayerList(Tail(players))

\* ping = (time.time() - start_time) * 1000, then round(ping, 2)
Ping(start_time, t) == (t - start_time) * 1000

\* the result dict of a successful query
OkResult(info, ping, player_list) ==
    [success |-> TRUE,
     data |-> [hostname |-> info.server_name,
               map |-> info.map_name,
               current_players |-> info.player_count,
               max_players |-> info.max_players,
               game |-> info.game,
               server_type |-> info.server_type,
               os |-> info.platform,
               password_protected |-> info.password_protected,
               vac_enabled |-> info.vac_enabled,
               ping |-> ping,
               player_list |-> player_list]]

\* the three except clauses of query_cs_server; a message is a tuple of its parts
TimeoutResult == [success |-> FALSE, error |-> <<"Connection timeout - server may be offline">>]

RefusedResult == [success |-> FALSE, error |-> <<"Connection refused - invalid IP or port">>]

FailedResult(e) == [success |-> FALSE, error |-> <<"Failed to query server: ", e>>]

----------------------------------------------------------------------------
\* The request slots

\* truth value of a dict, as tested by "if cached_result:"
Truthy(d) == DOMAIN d # {}

IdleCall ==
    [pc |-> "idle", route |-> "none", ip |-> "", port |-> 0, timeout |-> None,
     widget |-> 0, config |-> None,
     sent |-> 0, info |-> None, ping |-> 0, player_list |-> <<>>,
     result |-> None, response |-> None,
     \* history of the call, read only by the properties
     hit |-> FALSE, nInfo |-> 0, nPlayers |-> 0, info_exc |-> "",
     players_resp |-> None, players_exc |-> "", lookup_at |-> 0, seen |-> None,
     stored_at |-> 0, current |-> FALSE]

\* query_cs_server has been entered and has not returned
InQuery(c) == call[c].pc \in {"check", "read", "info", "players", "store"}

\* the call waits for a datagram
Outstanding(c) == call[c].pc \in {"info", "players"}

CallKey(c) == get_cache_key(call[c].ip, call[c].port)

\* FilterData without the test of "enabled": every field the mapping names
FilterDataNamed(enabled_fields, data) ==
    [f \in {g \in DOMAIN enabled_fields : g \in DOMAIN data} |-> data[f]]

\* the loop of get_server_status that filters result["data"] by enabled_fields
FilterData(enabled_fields, data) ==
    [f \in {g \in DOMAIN enabled_fields : enabled_fields[g] /\ g \in DOMAIN data} |-> data[f]]

\* what the handler answers once query_cs_server has returned result
Respond(rec, result) ==
    IF rec.route = "query"
    THEN IF ~result.success
         THEN [status |-> 400, body |-> [detail |-> result.error]]
         ELSE [status |-> 200, body |-> result.data]
    ELSE IF ~result.success
         THEN [status |-> 200, body |-> [success |-> FALSE, error |-> result.error]]
         ELSE [status |-> 200,
               body |-> [success |-> TRUE,
                         data |-> FilterData(Val(rec.config).enabled_fields, result.data)]]

\* query_cs_server returns result and the handler answers the request
Return(rec, result) ==
    [rec EXCEPT !.pc = "done", !.result = Some(result), !.response = Some(Respond(rec, result))]

\* start_time = time.time(); a2s.info(address, timeout=timeout) sends its request
StartInfo(rec) ==
    [rec EXCEPT !.pc = "info", !.sent = now, !.nInfo = @ + 1, !.lookup_at = now]

\* the socket timeout a2s sets: None blocks, a value <= 0 fails at once
TimeoutUsable(timeout) == IF timeout = None THEN TRUE ELSE Val(timeout) > 0

\* the deadline of the current round trip has been reached
TimedOut(rec) == IF rec.timeout = None THEN FALSE ELSE now - rec.sent >= Val(rec.timeout)

----------------------------------------------------------------------------
\* HTTP handlers

\* POST /api/query-server: validation of ServerQueryRequest, then to_thread
query_server(c, ip, port, timeout) ==
    /\ call[c].pc = "idle"
    /\ IF validate_port(port)
       THEN call' = [call EXCEPT ![c] = [IdleCall EXCEPT !.pc = "queued", !.route = "query",
                                          !.ip = ip, !.port = port, !.timeout = timeout]]
       ELSE call' = [call EXCEPT ![c] = [IdleCall EXCEPT !.pc = "done", !.route = "query",
                                          !.response = Some([status |-> 422, body |-> <<>>])]]
    /\ UNCHANGED <<now, query_cache, db, uuids>>

\* POST /api/save-config: WidgetConfig(**config.model_dump()), insert_one
save_config(ip, port, enabled_fields) ==
    /\ uuids < MaxWidgets
    /\ uuids' = uuids + 1
    /\ LET widget_id == uuids + 1
           doc == [server_ip |-> ip, server_port |-> port,
                   enabled_fields |-> enabled_fields, access_count |-> 0]
       IN  db' = [w \in DOMAIN db \cup {widget_id} |-> IF w = widget_id THEN doc ELSE db[w]]
    /\ UNCHANGED <<now, query_cache, call>>

\* DELETE /api/widget/{id}: delete_one; the 404 of a missing widget changes nothing
delete_widget(widget_id) ==
    /\ widget_id \in DOMAIN db
    /\ db' = [w \in DOMAIN db \ {widget_id} |-> db[w]]
    /\ UNCHANGED <<now, query_cache, uuids, call>>

\* GET /api/widget/{id}/status: find_one, 404 when there is no document
get_server_status(c, widget_id) ==
    /\ call[c].pc = "idle"
    /\ IF widget_id \in DOMAIN db
       THEN /\ db[widget_id].access_count < MaxAccess
            /\ call' = [call EXCEPT ![c] = [IdleCall EXCEPT !.pc = "update", !.route = "status",
                                             !.widget = widget_id,
                                             !.config = Some(db[widget_id])]]
       ELSE call' = [call EXCEPT ![c] = [IdleCall EXCEPT !.pc = "done", !.route = "status",
                                          !.widget = widget_id,
                                          !.response = Some([status |-> 404, body |-> <<>>])]]
    /\ UNCHANGED <<now, query_cache, db, uuids>>

\* update_access writing back the count that find_one read, plus one, in place
\* of $inc: concurrent requests lose updates
update_access_set(c) ==
    /\ call[c].pc = "update"
    /\ LET w == call[c].widget
       IN  db' = IF w \in DOMAIN db
                 THEN [db EXCEPT ![w].access_count = Val(call[c].config).access_count + 1]
                 ELSE db
    /\ call' = [call EXCEPT ![c].pc = "queued",
                            ![c].ip = Val(call[c].config).server_ip,
                            ![c].port = Val(call[c].config).server_port,
                            ![c].timeout = Some(QueryDefaultTimeout)]
    /\ UNCHANGED <<now, query_cache, uuids>>

\* update_one with $inc access_count, then to_thread with the document's address
update_access(c) ==
    /\ call[c].pc = "update"
    /\ LET w == call[c].widget
       IN  db' = IF w \in DOMAIN db
                 THEN [db EXCEPT ![w].access_count = @ + 1]
                 ELSE db
    /\ call' = [call EXCEPT ![c].pc = "queued",
                            ![c].ip = Val(call[c].config).server_ip,
                            ![c].port = Val(call[c].config).server_port,
                            ![c].timeout = Some(QueryDefaultTimeout)]
    /\ UNCHANGED <<now, query_cache, uuids>>

\* to_thread replaced by a direct call of query_cs_server in the coroutine: the
\* event loop runs one query at a time
call_inline(c) ==
    /\ call[c].pc = "queued"
    /\ \A e \in Calls \ {c} : call[e].pc \notin {"check", "read", "info", "players", "store"}
    /\ call' = [call EXCEPT ![c].pc = "check"]
    /\ UNCHANGED <<now, query_cache, db, uuids>>

\* asyncio.to_thread: a worker thread enters query_cs_server
to_thread(c) ==
    /\ call[c].pc = "queued"
    /\ call' = [call EXCEPT ![c].pc = "check"]
    /\ UNCHANGED <<now, query_cache, db, uuids>>

----------------------------------------------------------------------------
\* query_cs_server, step by step

\* CacheCheck with single-flight coalescing: a call that misses waits while
\* another call queries the same endpoint
CacheCheckSingleFlight(c) ==
    /\ call[c].pc = "check"
    /\ IF CallKey(c) \in DOMAIN query_cache
       THEN call' = [call EXCEPT ![c].pc = "read"]
       ELSE /\ \A e \in Calls \ {c} : ~(CallKey(e) = CallKey(c) /\ Outstanding(e))
            /\ call' = [call EXCEPT ![c] = StartInfo(call[c])]
    /\ UNCHANGED <<now, query_cache, db, uuids>>

\* get_cached_query: "if key in query_cache"
CacheCheck(c) ==
    /\ call[c].pc = "check"
    /\ IF CallKey(c) \in DOMAIN query_cache
       THEN call' = [call EXCEPT ![c].pc = "read"]
       ELSE call' = [call EXCEPT ![c] = StartInfo(call[c])]
    /\ UNCHANGED <<now, query_cache, db, uuids>>

\* CacheRead with eviction: an entry found expired is deleted from the cache
CacheReadEvicting(c) ==
    /\ call[c].pc = "read"
    /\ LET entry == query_cache[CallKey(c)]
           seen == [call[c] EXCEPT !.seen = Some(entry[2]), !.lookup_at = now]
       IN  IF CacheFresh(now, entry[2]) /\ Truthy(entry[1])
           THEN /\ call' = [call EXCEPT ![c] = Return([seen EXCEPT !.hit = TRUE], entry[1])]
                /\ query_cache' = query_cache
           ELSE /\ call' = [call EXCEPT ![c] = StartInfo(seen)]
                /\ query_cache' = [k \in DOMAIN query_cache \ {CallKey(c)} |-> query_cache[k]]
    /\ UNCHANGED <<now, db, uuids>>

\* get_cached_query: the entry is read and its age tested; "if cached_result: return"
CacheRead(c) ==
    /\ call[c].pc = "read"
    /\ LET entry == query_cache[CallKey(c)]
           seen == [call[c] EXCEPT !.seen = Some(entry[2]), !.lookup_at = now]
       IN  IF CacheFresh(now, entry[2]) /\ Truthy(entry[1])
           THEN call' = [call EXCEPT ![c] = Return([seen EXCEPT !.hit = TRUE], entry[1])]
           ELSE call' = [call EXCEPT ![c] = StartInfo(seen)]
    /\ UNCHANGED <<now, query_cache, db, uuids>>

\* a2s.info returns: ping is measured and a2s.players sends its request
InfoResponse(c, info) ==
    /\ call[c].pc = "info"
    /\ validate_port(call[c].port)
    /\ TimeoutUsable(call[c].timeout)
    /\ call' = [call EXCEPT ![c].pc = "players", ![c].info = Some(info),
                            ![c].ping = Ping(call[c].sent, now),
                            ![c].sent = now, ![c].nPlayers = @ + 1]
    /\ UNCHANGED <<now, query_cache, db, uuids>>

\* InfoTimeout with the general clause placed before "except socket.timeout"
InfoTimeoutAsFailure(c) ==
    /\ call[c].pc = "info"
    /\ validate_port(call[c].port)
    /\ TimeoutUsable(call[c].timeout)
    /\ TimedOut(call[c])
    /\ call' = [call EXCEPT ![c] = Return([call[c] EXCEPT !.info_exc = "timeout"],
                                          FailedResult("timed out"))]
    /\ UNCHANGED <<now, query_cache, db, uuids>>

\* InfoTimeout with the error result stored in the cache before it is returned
InfoTimeoutStored(c) ==
    /\ call[c].pc = "info"
    /\ validate_port(call[c].port)
    /\ TimeoutUsable(call[c].timeout)
    /\ TimedOut(call[c])
    /\ query_cache' = set_cached_query(query_cache, call[c].ip, call[c].port, TimeoutResult, now)
    /\ call' = [call EXCEPT ![c] = Return([call[c] EXCEPT !.info_exc = "timeout"], TimeoutResult)]
    /\ UNCHANGED <<now, db, uuids>>

\* InfoTimeout with one retry: the first timeout sends the info request again
InfoTimeoutRetry(c) ==
    /\ call[c].pc = "info"
    /\ validate_port(call[c].port)
    /\ TimeoutUsable(call[c].timeout)
    /\ TimedOut(call[c])
    /\ IF call[c].nInfo < 2
       THEN call' = [call EXCEPT ![c] = StartInfo(call[c])]
       ELSE call' = [call EXCEPT ![c] = Return([call[c] EXCEPT !.info_exc = "timeout"],
                                               TimeoutResult)]
    /\ UNCHANGED <<now, query_cache, db, uuids>>

\* a2s.info raises socket.timeout
InfoTimeout(c) ==
    /\ call[c].pc = "info"
    /\ validate_port(call[c].port)
    /\ TimeoutUsable(call[c].timeout)
    /\ TimedOut(call[c])
    /\ call' = [call EXCEPT ![c] = Return([call[c] EXCEPT !.info_exc = "timeout"], TimeoutResult)]
    /\ UNCHANGED <<now, query_cache, db, uuids>>

\* a2s.info raises ConnectionRefusedError
InfoRefused(c) ==
    /\ call[c].pc = "info"
    /\ validate_port(call[c].port)
    /\ TimeoutUsable(call[c].timeout)
    /\ call' = [call EXCEPT ![c] = Return([call[c] EXCEPT !.info_exc = "refused"], RefusedResult)]
    /\ UNCHANGED <<now, query_cache, db, uuids>>

\* a2s.info raises any other exception (a malformed response; a port or a
\* timeout the socket rejects)
InfoException(c, e) ==
    /\ call[c].pc = "info"
    /\ call' = [call EXCEPT ![c] = Return([call[c] EXCEPT !.info_exc = "other"], FailedResult(e))]
    /\ UNCHANGED <<now, query_cache, db, uuids>>

\* a2s.players returns: the player list and the result dict are built
PlayersResponse(c, players) ==
    /\ call[c].pc = "players"
    /\ LET player_list == PlayerList(players)
       IN  call' = [call EXCEPT ![c].pc = "store",
                                ![c].player_list = player_list,
                                ![c].players_resp = Some(players),
                                ![c].result = Some(OkResult(Val(call[c].info), call[c].ping,
                                                            player_list))]
    /\ UNCHANGED <<now, query_cache, db, uuids>>

\* PlayersException without the inner try: the exception reaches the outer clauses
PlayersExceptionUncaught(c, kind) ==
    /\ call[c].pc = "players"
    /\ kind = "timeout" => TimedOut(call[c])
    /\ call' = [call EXCEPT ![c] =
                  Return([call[c] EXCEPT !.players_exc = kind],
                         CASE kind = "timeout" -> TimeoutResult
                           [] kind = "refused" -> RefusedResult
                           [] OTHER -> FailedResult("Invalid response type"))]
    /\ UNCHANGED <<now, query_cache, db, uuids>>

\* a2s.players raises: the inner "except Exception" logs and keeps player_list = []
PlayersException(c, kind) ==
    /\ call[c].pc = "players"
    /\ kind = "timeout" => TimedOut(call[c])
    /\ call' = [call EXCEPT ![c].pc = "store",
                            ![c].player_list = <<>>,
                            ![c].players_exc = kind,
                            ![c].result = Some(OkResult(Val(call[c].info), call[c].ping, <<>>))]
    /\ UNCHANGED <<now, query_cache, db, uuids>>

\* set_cached_query(ip, port, result); return result.  (current marks the call
\* whose store wrote the entry the cache holds for its endpoint.)
Store(c) ==
    /\ call[c].pc = "store"
    /\ query_cache' = set_cached_query(query_cache, call[c].ip, call[c].port,
                                       Val(call[c].result), now)
    /\ call' = [e \in Calls |->
                  IF e = c
                  THEN Return([call[c] EXCEPT !.stored_at = now, !.current = TRUE],
                              Val(call[c].result))
                  ELSE IF CallKey(e) = CallKey(c)
                       THEN [call[e] EXCEPT !.current = FALSE]
                       ELSE call[e]]
    /\ UNCHANGED <<now, db, uuids>>

\* the response has been sent; the slot serves the next request
Recycle(c) ==
    /\ call[c].pc = "done"
    /\ call' = [call EXCEPT ![c] = IdleCall]
    /\ UNCHANGED <<now, query_cache, db, uuids>>

\* the deadline of the current round trip would be passed d seconds from now
PastDeadline(rec, d) ==
    IF rec.timeout = None THEN FALSE ELSE now + d - rec.sent > Val(rec.timeout)

\* d seconds pass; a socket with a timeout raises no later than its deadline
Tick(d, maxTime) ==
    /\ now + d <= maxTime
    /\ \A c \in Calls : Outstanding(c) => ~PastDeadline(call[c], d)
    /\ now' = now + d
    /\ UNCHANGED <<query_cache, db, uuids, call>>

----------------------------------------------------------------------------
PlayersExceptionKinds == {"timeout", "refused", "other"}

\* half the TTL: a cached entry is looked up at the ages 0, 5, 10, 15
CacheStep == CACHE_DURATION \div 2

WidgetIds == 1..(MaxWidgets + 1)

Init ==
    /\ now = 0
    /\ query_cache = <<>>
    /\ db = <<>>
    /\ uuids = 0
    /\ call = [c \in Calls |-> IdleCall]

\* query_cs_server in its worker thread, for the given inputs of the network
QuerySteps(infos, responses) ==
    \/ \E c \in Calls : to_thread(c)
    \/ \E c \in Calls : CacheCheck(c)
    \/ \E c \in Calls : CacheRead(c)
    \/ \E c \in Calls, info \in infos : InfoResponse(c, info)
    \/ \E c \in Calls : InfoTimeout(c)
    \/ \E c \in Calls : InfoRefused(c)
    \/ \E c \in Calls, e \in OtherExceptions : InfoException(c, e)
    \/ \E c \in Calls, players \in responses : PlayersResponse(c, players)
    \/ \E c \in Calls, kind \in PlayersExceptionKinds : PlayersException(c, kind)
    \/ \E c \in Calls : Store(c)
    \/ \E c \in Calls : Recycle(c)

\* The whole HTTP layer: both routes to query_cs_server, and save-config
Next ==
    \/ \E c \in Calls, ip \in Ips, port \in Ports, timeout \in {Some(1)} :
          query_server(c, ip, port, timeout)
    \/ \E ip \in Ips, port \in Ports, ef \in FieldMaps : save_config(ip, port, ef)
    \/ \E c \in Calls, w \in WidgetIds : get_server_status(c, w)
    \/ \E c \in Calls : update_access(c)
    \/ QuerySteps({CHOOSE i \in Infos : TRUE}, {<<>>})
    \/ Tick(1, MaxTimeHttp)

Spec == Init /\ [][Next]_vars

\* The protocol client: /api/query-server with every timeout value, one endpoint
NextQuery ==
    \/ \E c \in Calls, ip \in Ips, timeout \in Timeouts :
          query_server(c, ip, 27015, timeout)
    \/ QuerySteps(Infos, {<<>>})
    \/ Tick(1, MaxTimeQuery)

SpecQuery == Init /\ [][NextQuery]_vars

\* The player list: /api/query-server against every player response
NextPlayers ==
    \/ \E c \in Calls, ip \in Ips : query_server(c, ip, 27015, Some(1))
    \/ QuerySteps({CHOOSE i \in Infos : TRUE}, PlayerResponses)
    \/ Tick(1, MaxTimeHttp)

SpecPlayers == Init /\ [][NextPlayers]_vars

\* The result cache: /api/query-server on one endpoint, over more than a TTL,
\* the clock read every CacheStep seconds and the client's timeout being as long
NextCache ==
    \/ \E c \in Calls, ip \in Ips : query_server(c, ip, 27015, Some(CacheStep))
    \/ QuerySteps(Infos, {<<>>})
    \/ Tick(CacheStep, MaxCacheTicks * CacheStep)

SpecCache == Init /\ [][NextCache]_vars

\* Concurrent callers: the same, on two endpoints
NextEndpoints ==
    \/ \E c \in Calls, ip \in Ips, port \in {27015, 27016} :
          query_server(c, ip, port, Some(CacheStep))
    \/ QuerySteps({CHOOSE i \in Infos : TRUE}, {<<>>})
    \/ Tick(CacheStep, MaxEndpointTicks * CacheStep)

SpecEndpoints == Init /\ [][NextEndpoints]_vars

\* The widget status route: widgets of one endpoint are saved, read and
\* deleted, while one timeout of the server query passes
NextWidget ==
    \/ \E ip \in Ips, ef \in StatusFieldMaps : save_config(ip, 27015, ef)
    \/ \E w \in WidgetIds : delete_widget(w)
    \/ \E c \in Calls, w \in WidgetIds : get_server_status(c, w)
    \/ \E c \in Calls : update_access(c)
    \/ QuerySteps({CHOOSE i \in Infos : TRUE}, {<<>>})
    \/ Tick(QueryDefaultTimeout, QueryDefaultTimeout)

SpecWidget == Init /\ [][NextWidget]_vars

----------------------------------------------------------------------------
\* Properties

\* the fields of a result's data that come from the info response
InfoFieldsOf(data, info) ==
    /\ data.hostname = info.server_name
    /\ data.map = info.map_name
    /\ data.current_players = info.player_count
    /\ data.max_players = info.max_players
    /\ data.game = info.game
    /\ data.server_type = info.server_type
    /\ data.os = info.platform
    /\ data.password_protected = info.password_protected
    /\ data.vac_enabled = info.vac_enabled

\* C1: when the info query has succeeded and the player-list query raises
\* (timeout, refusal or anything else), the call goes on to store and return
\* an Ok result whose player list is empty and whose info fields are those of
\* the info response; it never returns Err.
C1_PlayerFailureDegrades ==
    \A c \in Calls :
        call[c].players_exc # "" =>
            /\ call[c].pc \in {"store", "done"}
            /\ call[c].info # None
            /\ call[c].result # None
            /\ Val(call[c].result).success = TRUE
            /\ Val(call[c].result).data.player_list = <<>>
            /\ InfoFieldsOf(Val(call[c].result).data, Val(call[c].info))
            /\ call[c].pc = "done" => Val(call[c].response).status = 200

C1_Witness ==
    \E c \in Calls :
        /\ call[c].pc = "done"
        /\ call[c].players_exc = "timeout"
        /\ ~call[c].hit
        /\ Val(call[c].result).success
        /\ Val(call[c].result).data.map = "de_inferno"

\* C6: when the info query raises, the call returns an Err value to its handler
\* (the handler answers the request): socket.timeout gives the timeout error,
\* ConnectionRefusedError the refused error, anything else "Failed to query
\* server: <details>"; no player-list query is sent.
C6_InfoFailureIsErr ==
    \A c \in Calls :
        call[c].info_exc # "" =>
            /\ call[c].pc = "done"
            /\ call[c].response # None
            /\ call[c].nInfo = 1
            /\ call[c].nPlayers = 0
            /\ call[c].info = None
            /\ Val(call[c].result).success = FALSE
            /\ call[c].info_exc = "timeout" =>
                  Val(call[c].result).error = <<"Connection timeout - server may be offline">>
            /\ call[c].info_exc = "refused" =>
                  Val(call[c].result).error = <<"Connection refused - invalid IP or port">>
            /\ call[c].info_exc = "other" =>
                  /\ Len(Val(call[c].result).error) = 2
                  /\ Val(call[c].result).error[1] = "Failed to query server: "
                  /\ Val(call[c].result).error[2] \in OtherExceptions

C6_Witness ==
    \E c \in Calls :
        /\ call[c].pc = "done"
        /\ call[c].info_exc = "timeout"
        /\ call[c].timeout = Some(3)
        /\ now - call[c].sent = 3
        /\ Val(call[c].response).status = 400

\* C7: every network round trip has a deadline: a call that waits for a
\* datagram has a timeout value, and has not waited longer than it.
C7_RoundTripBounded ==
    \A c \in Calls :
        Outstanding(c) =>
            IF call[c].timeout = None
            THEN FALSE
            ELSE now - call[c].sent <= Val(call[c].timeout)

\* the number of named entries among the first i of a player response
NamedUpTo(players, i) == Cardinality({j \in 1..i : players[j].name # ""})

\* C8: no player list of an Ok result (returned, about to be stored, or cached)
\* holds an entry with an empty name; and the list built from a player response
\* holds exactly the response's named entries, each at the rank it has among
\* the named entries (so in their original order), with its name and score and
\* its duration to the nearest hundredth of a second.
C8_PlayerListIsNamedSubsequence ==
    /\ \A c \in Calls :
          (call[c].result # None /\ Val(call[c].result).success) =>
              \A k \in DOMAIN Val(call[c].result).data.player_list :
                  Val(call[c].result).data.player_list[k].name # ""
    /\ \A key \in DOMAIN query_cache :
          query_cache[key][1].success =>
              \A k \in DOMAIN query_cache[key][1].data.player_list :
                  query_cache[key][1].data.player_list[k].name # ""
    /\ \A c \in Calls :
          call[c].players_resp # None =>
              LET players == Val(call[c].players_resp)
                  list == Val(call[c].result).data.player_list
              IN  /\ Val(call[c].result).success
                  /\ Len(list) = NamedUpTo(players, Len(players))
                  /\ \A i \in 1..Len(players) :
                        players[i].name # "" =>
                            LET entry == list[NamedUpTo(players, i)]
                            IN  /\ entry.name = players[i].name
                                /\ entry.score = players[i].score
                                /\ entry.duration - players[i].duration \in -5..5
                                /\ entry.duration % 10 = 0

C8_Witness ==
    \E c \in Calls :
        /\ call[c].pc = "done"
        /\ call[c].players_resp # None
        /\ Len(Val(call[c].players_resp)) = 2
        /\ Val(call[c].players_resp)[1].name = ""
        /\ Val(call[c].players_resp)[2].name = "bob"
        /\ Len(Val(call[c].result).data.player_list) = 1
        /\ Val(call[c].result).data.player_list[1].name = "bob"

\* C9: query_cs_server is only ever entered with a port in 1..65535.
C9_PortInRange ==
    \A c \in Calls : InQuery(c) => call[c].port \in 1..65535

\* call c returns from query_cs_server in this step, after a cache miss
ReturnsAfterMiss(c) ==
    call[c].pc # "done" /\ call'[c].pc = "done" /\ call'[c].nInfo = 1

C4_LookupHitIffFresh ==
    [][\A c \in Calls :
          /\ (call[c].pc = "check" /\ call'[c].pc # "check") =>
                IF CallKey(c) \in DOMAIN query_cache
                THEN call'[c].pc = "read"
                ELSE call'[c].pc = "info" /\ call'[c].nInfo = 1 /\ call'[c].result = None
          /\ (call[c].pc = "read" /\ call'[c].pc # "read") =>
                IF now - query_cache[CallKey(c)][2] < CACHE_DURATION
                THEN /\ call'[c].pc = "done"
                     /\ call'[c].result = Some(query_cache[CallKey(c)][1])
                     /\ call'[c].response # None
                     /\ call'[c].nInfo = 0 /\ call'[c].nPlayers = 0
                ELSE call'[c].pc = "info" /\ call'[c].nInfo = 1 /\ call'[c].result = None]_vars

C4_Witness ==
    \E c \in Calls :
        /\ call[c].pc = "done" /\ call[c].hit
        /\ call[c].seen # None
        /\ call[c].lookup_at - Val(call[c].seen) = 5
        /\ call[c].result = Some(query_cache[CallKey(c)][1])
        /\ call[c].nInfo = 0

\* C5: a call that finds an entry stored TTL or more before its lookup is not
\* served from the cache: it has sent its own info request.
C5_ExpiredEntryIsMiss ==
    \A c \in Calls :
        (call[c].seen # None /\ call[c].lookup_at - Val(call[c].seen) >= CACHE_DURATION) =>
            /\ ~call[c].hit
            /\ call[c].nInfo = 1
            /\ call[c].pc \in {"info", "players", "store", "done"}

C5_Witness ==
    \E c \in Calls :
        /\ call[c].pc = "done"
        /\ call[c].seen = Some(0)
        /\ call[c].lookup_at = 10
        /\ call[c].nInfo = 1
        /\ Val(call[c].result).success
        /\ call[c].stored_at >= 10

----------------------------------------------------------------------------
\* C11: under any interleaving of concurrent calls on one endpoint the cache
\* entry is always a whole (result, timestamp) pair written by a single store:
\* every change of an entry is the step of one call's store and leaves that
\* call's result with the time of that step; a lookup takes the age and the
\* result it returns from the same entry, and the key it found in the
\* membership test is still there when it reads; the entry the cache holds is
\* the pair of the store that executed last (last write wins).
C11_EntryChangesAreSingleStores ==
    \A k \in DOMAIN query_cache' :
        (k \notin DOMAIN query_cache \/ query_cache'[k] # query_cache[k])
        => \E c \in Calls :
              /\ call[c].pc = "store"
              /\ call'[c].pc = "done"
              /\ CallKey(c) = k
              /\ query_cache'[k] = <<Val(call[c].result), now>>

C11_LookupReadsOneEntry ==
    \A d \in Calls :
        (call[d].pc = "read" /\ call'[d].pc # "read")
        => /\ CallKey(d) \in DOMAIN query_cache
           /\ call'[d].seen = Some(query_cache[CallKey(d)][2])
           /\ call'[d].hit => call'[d].result = Some(query_cache[CallKey(d)][1])

C11_LastWriteWins ==
    /\ \A d \in Calls : call[d].pc = "read" => CallKey(d) \in DOMAIN query_cache
    /\ \A c \in Calls :
          call[c].current
          => /\ CallKey(c) \in DOMAIN query_cache
             /\ query_cache[CallKey(c)] = <<Val(call[c].result), call[c].stored_at>>
    /\ \A c \in Calls, d \in Calls :
          (c # d /\ call[c].current /\ call[d].current) => CallKey(c) # CallKey(d)

C11_WholePairLastWriteWins ==
    /\ []C11_LastWriteWins
    /\ [][C11_EntryChangesAreSingleStores /\ C11_LookupReadsOneEntry]_vars

\* both calls found no entry, queried and stored different results for one
\* endpoint at different times; both have returned, and the entry is the later
\* store's
C11_Witness ==
    \E c \in Calls, d \in Calls :
        /\ c # d
        /\ CallKey(c) = CallKey(d)
        /\ call[c].pc = "done" /\ call[d].pc = "done"
        /\ call[c].nInfo = 1 /\ call[d].nInfo = 1
        /\ call[c].seen = None /\ call[d].seen = None
        /\ Val(call[c].result).success /\ Val(call[d].result).success
        /\ call[c].result # call[d].result
        /\ call[c].stored_at < call[d].stored_at
        /\ call[d].current /\ ~call[c].current
        /\ query_cache[CallKey(d)] = <<Val(call[d].result), call[d].stored_at>>

----------------------------------------------------------------------------
\* C12: there is no single-flight coalescing: while one call that missed the
\* cache is waiting for the server, a second call for the same endpoint that
\* finds no valid entry (none, or an expired one) can complete its lookup as a
\* miss and send an info query of its own, the first call's query going on
\* untouched; so an interleaving with both calls querying is reachable.
C12_NoSingleFlight ==
    \A c \in Calls, d \in Calls :
        (c # d /\ CallKey(c) = CallKey(d) /\ Outstanding(c))
        => /\ (call[d].pc = "check" /\ CallKey(d) \notin DOMAIN query_cache)
              => ENABLED (/\ CacheCheck(d)
                          /\ call'[d].pc = "info"
                          /\ call'[d].nInfo = 1
                          /\ call'[c] = call[c])
           /\ (call[d].pc = "read" /\ ~CacheFresh(now, query_cache[CallKey(d)][2]))
              => ENABLED (/\ CacheRead(d)
                          /\ call'[d].pc = "info"
                          /\ call'[d].nInfo = 1
                          /\ call'[c] = call[c])

\* two calls for one endpoint, neither served from the cache, each waiting for
\* the response to its own info query
C12_Witness ==
    \E c \in Calls, d \in Calls :
        /\ c # d
        /\ CallKey(c) = CallKey(d)
        /\ call[c].pc = "info" /\ call[d].pc = "info"
        /\ call[c].nInfo = 1 /\ call[d].nInfo = 1
        /\ ~call[c].hit /\ ~call[d].hit
        /\ CallKey(c) \notin DOMAIN query_cache

----------------------------------------------------------------------------
\* the player-list step of the call has finished: a2s.players has answered, or
\* has raised and the failure was tolerated
PlayersFinished(rec) == rec.players_resp # None \/ rec.players_exc # ""

\* C13: within one call there are no retries and the steps are ordered: at
\* most one info query and at most one player-list query are sent, the
\* player-list query is sent only by the step in which the info query
\* succeeds, and the cache is written only by a call whose info query has
\* succeeded and whose player-list step has finished.
C13_CountsAndOrder ==
    \A c \in Calls :
        /\ call[c].nInfo <= 1
        /\ call[c].nPlayers <= 1
        /\ call[c].nPlayers = 1
           => (call[c].nInfo = 1 /\ call[c].info # None /\ call[c].info_exc = "")
        /\ PlayersFinished(call[c]) => call[c].nPlayers = 1
        /\ call[c].pc = "store"
           => (call[c].nInfo = 1 /\ call[c].nPlayers = 1 /\ PlayersFinished(call[c]))

C13_StepsInOrder ==
    /\ \A c \in Calls :
          call'[c].nPlayers > call[c].nPlayers
          => (call[c].pc = "info" /\ call[c].info = None /\ call'[c].info # None)
    /\ query_cache' # query_cache
       => \E c \in Calls :
             /\ call[c].pc = "store"
             /\ call'[c].pc = "done"
             /\ call[c].nInfo = 1 /\ call[c].nPlayers = 1
             /\ call[c].info # None
             /\ PlayersFinished(call[c])
             /\ query_cache' = set_cached_query(query_cache, call[c].ip, call[c].port,
                                                Val(call[c].result), now)

C13_NoRetriesOrderedSteps ==
    /\ []C13_CountsAndOrder
    /\ [][C13_StepsInOrder]_vars

\* a call whose info query timed out has returned after that one query; another
\* sent one info query, then one player-list query that timed out, and stored
C13_Witness ==
    \E c \in Calls, d \in Calls :
        /\ call[c].pc = "done" /\ call[c].info_exc = "timeout"
        /\ call[c].nInfo = 1 /\ call[c].nPlayers = 0
        /\ call[d].pc = "done" /\ call[d].players_exc = "timeout"
        /\ call[d].nInfo = 1 /\ call[d].nPlayers = 1
        /\ call[d].current

----------------------------------------------------------------------------
\* C14: no step removes a key from the cache; a lookup, whether it hits,
\* misses or finds the entry expired, leaves the whole cache as it was (an
\* expired entry stays, a hit keeps the entry's timestamp); a store sets its
\* endpoint's entry to the new result with the current time and leaves every
\* other endpoint's entry as it was; no other step changes the cache.
C14_Frame ==
    /\ DOMAIN query_cache \subseteq DOMAIN query_cache'
    /\ \A c \in Calls :
          (call[c].pc \in {"check", "read"} /\ call'[c] # call[c])
          => query_cache' = query_cache
    /\ \A c \in Calls :
          (call[c].pc = "store" /\ call'[c].pc = "done")
          => /\ DOMAIN query_cache' = DOMAIN query_cache \cup {CallKey(c)}
             /\ query_cache'[CallKey(c)] = <<Val(call[c].result), now>>
             /\ \A k \in DOMAIN query_cache \ {CallKey(c)} :
                   query_cache'[k] = query_cache[k]
    /\ (\A c \in Calls : ~(call[c].pc = "store" /\ call'[c].pc = "done"))
       => query_cache' = query_cache

C14_LookupAndStoreFrame == [][C14_Frame]_vars

\* the cache holds two endpoints; one call found its endpoint's entry expired
\* and is querying while that entry is still there, the other was served from
\* an entry that still carries the timestamp it had before the hit
C14_Witness ==
    \E c \in Calls, d \in Calls :
        /\ Cardinality(DOMAIN query_cache) = 2
        /\ CallKey(c) # CallKey(d)
        /\ call[c].pc = "info"
        /\ call[c].seen # None
        /\ ~CacheFresh(call[c].lookup_at, Val(call[c].seen))
        /\ query_cache[CallKey(c)][2] = Val(call[c].seen)
        /\ call[d].pc = "done" /\ call[d].hit
        /\ Val(call[d].seen) < call[d].lookup_at
        /\ query_cache[CallKey(d)] = <<Val(call[d].result), Val(call[d].seen)>>

----------------------------------------------------------------------------
\* the keys of the data of a successful result
ResultFields ==
    {"hostname", "map", "current_players", "max_players", "game", "server_type", "os",
     "password_protected", "vac_enabled", "ping", "player_list"}

\* C15: query_cs_server returns its result unmodified, and the status handler
\* filters it by the widget's enabled_fields: the result the handler receives
\* has every field of a result, whatever the mapping says, a result of the
\* call's own query being the one built from its responses, and an error
\* result is answered with its error as it is; the data of a successful /api/widget/{id}/status response holds
\* exactly the fields that the mapping maps to true and the result has, each
\* with the result's value, and never a field mapped to false or not named by
\* the mapping.
C15_StatusDataIsFilteredResult ==
    \A c \in Calls :
        (call[c].pc = "done" /\ call[c].result # None)
        => LET result == Val(call[c].result)
               body == Val(call[c].response).body
           IN  /\ result.success => DOMAIN result.data = ResultFields
               /\ (~call[c].hit /\ result.success)
                  => result = OkResult(Val(call[c].info), call[c].ping, call[c].player_list)
               /\ (call[c].route = "status" /\ ~result.success)
                  => (~body.success /\ body.error = result.error)
               /\ (call[c].route = "status" /\ result.success)
                  => LET enabled_fields == Val(call[c].config).enabled_fields
                     IN  /\ body.success
                         /\ \A f \in DOMAIN body.data :
                               /\ f \in DOMAIN enabled_fields
                               /\ enabled_fields[f]
                               /\ f \in DOMAIN result.data
                               /\ body.data[f] = result.data[f]
                         /\ \A f \in DOMAIN enabled_fields :
                               (enabled_fields[f] /\ f \in DOMAIN result.data)
                               => f \in DOMAIN body.data

\* a status request has been answered with the fields shown, while the mapping
\* also hides a field of the result, names a field the result lacks, and
\* leaves fields of the result unmentioned
C15_Witness ==
    \E c \in Calls :
        /\ call[c].pc = "done" /\ call[c].route = "status"
        /\ call[c].result # None
        /\ Val(call[c].result).success
        /\ LET enabled_fields == Val(call[c].config).enabled_fields
               data == Val(call[c].result).data
           IN  /\ DOMAIN Val(call[c].response).body.data = {"hostname", "map", "player_list"}
               /\ \E f \in DOMAIN enabled_fields : ~enabled_fields[f] /\ f \in DOMAIN data
               /\ \E f \in DOMAIN enabled_fields : enabled_fields[f] /\ f \notin DOMAIN data
               /\ \E f \in DOMAIN data : f \notin DOMAIN enabled_fields

----------------------------------------------------------------------------
\* C16: each /api/widget/{id}/status request for an existing widget raises
\* that widget's access_count by exactly 1, before its server query and
\* whatever the query's outcome: the request's update step adds 1 to the count
\* of its widget and changes nothing else of the database or the cache, it
\* comes before the call enters query_cs_server, and a count changes in no
\* other step (so N requests raise it by N); a request for a missing widget is
\* answered 404 at once, changing no document and no cache entry and sending
\* no query.
C16_RequestSteps ==
    /\ \A c \in Calls :
          (call[c].pc = "idle" /\ call'[c].pc # "idle" /\ call'[c].route = "status")
          => /\ db' = db
             /\ query_cache' = query_cache
             /\ IF call'[c].widget \in DOMAIN db
                THEN call'[c].pc = "update"
                ELSE /\ call'[c].pc = "done"
                     /\ Val(call'[c].response).status = 404
                     /\ call'[c].result = None
                     /\ call'[c].nInfo = 0
    /\ \A c \in Calls :
          (call[c].pc = "update" /\ call'[c].pc # "update")
          => /\ call'[c].pc = "queued"
             /\ call'[c].nInfo = 0 /\ call'[c].seen = None /\ call'[c].result = None
             /\ query_cache' = query_cache
             /\ IF call[c].widget \in DOMAIN db
                THEN db' = [db EXCEPT ![call[c].widget].access_count =
                                          db[call[c].widget].access_count + 1]
                ELSE db' = db
    /\ \A c \in Calls :
          (call[c].route = "status" /\ call[c].pc # "queued" /\ call'[c].pc = "queued")
          => call[c].pc = "update"
    /\ \A c \in Calls :
          (call[c].route = "status" /\ call[c].pc # "check" /\ call'[c].pc = "check")
          => call[c].pc = "queued"
    /\ \A w \in DOMAIN db \cap DOMAIN db' :
          db'[w].access_count # db[w].access_count
          => \E c \in Calls :
                /\ call[c].pc = "update" /\ call'[c].pc = "queued"
                /\ call[c].widget = w

C16_NotFoundDoesNothing ==
    \A c \in Calls :
        (call[c].route = "status" /\ call[c].pc = "done"
            /\ Val(call[c].response).status = 404)
        => (call[c].config = None /\ call[c].result = None
            /\ call[c].nInfo = 0 /\ call[c].nPlayers = 0 /\ call[c].seen = None)

====
